---- MODULE Spec2Model ----
(***************************************************************************)
(* Model of app.py, the "All-in-One Engineering App": a Streamlit script   *)
(* that is re-run from top to bottom on every user interaction.  One run   *)
(* reads the sidebar radio, dispatches to exactly one page controller      *)
(* (one of the render functions), which reads its widgets, evaluates its   *)
(* formula, shows the result and, on two pages, builds a result record    *)
(* and offers downloads.                                                   *)
(*                                                                         *)
(* Numbers are exact rationals <<n, d>> (d > 0, lowest terms): the model   *)
(* checks the algebra of the formulas; Python's binary floating point      *)
(* agrees with it up to rounding error.                                    *)
(*                                                                         *)
(* Spec is the session: user interactions and the script runs they cause.  *)
(* SpecCsv is export_csv called on an arbitrary ordered mapping; the bytes *)
(* a page offers for download are export_csv of its result record.         *)
(***************************************************************************)
EXTENDS Integers, Sequences, FiniteSets, TLC

VARIABLES
    page,       \* value of the sidebar radio for the current run
    widgets,    \* values the page's input widgets return in the current run
    pc,         \* "run": script run requested; "done": script run finished
    ran,        \* page controllers invoked by the current run, in order
    locals,     \* local variables of the controller that ran
    shown,      \* values shown by st.success, as formatted
    results,    \* the result record handed to the exporters (<<>> if none)
    downloads,  \* file names offered through st.download_button
    error,      \* exception that ended the run, or "none"
    openFigs,   \* figures registered with matplotlib.pyplot in the process
    data_dict,  \* argument of a direct export_csv call (<<>> if none)
    csv_bytes   \* bytes returned by that export_csv call

vars == <<page, widgets, pc, ran, locals, shown, results, downloads, error,
          openFigs, data_dict, csv_bytes>>

(***************************************************************************)
(* Exact rational arithmetic.                                              *)
(***************************************************************************)
Abs(x) == IF x < 0 THEN -x ELSE x

RECURSIVE GCD(_, _)
GCD(x, y) == IF y = 0 THEN x ELSE GCD(y, x % y)

Rat(n, d) ==
    LET g == GCD(Abs(n), Abs(d))
        s == IF d < 0 THEN -1 ELSE 1
    IN  <<(s * n) \div g, (s * d) \div g>>

RInt(k) == <<k, 1>>

RAdd(x, y) ==
    LET g == GCD(x[2], y[2])
    IN  Rat(x[1] * (y[2] \div g) + y[1] * (x[2] \div g), (x[2] \div g) * y[2])

RNeg(x) == <<-x[1], x[2]>>

RSub(x, y) == RAdd(x, RNeg(y))

RMul(x, y) ==
    LET g1 == GCD(Abs(x[1]), y[2])
        g2 == GCD(Abs(y[1]), x[2])
    IN  <<(x[1] \div g1) * (y[1] \div g2), (x[2] \div g2) * (y[2] \div g1)>>

RIsZero(x) == x[1] = 0

RInv(x) == IF x[1] < 0 THEN <<-x[2], -x[1]>> ELSE <<x[2], x[1]>>

RLt(x, y) == RSub(x, y)[1] < 0

RLe(x, y) == RSub(x, y)[1] <= 0

RSq(x) == RMul(x, x)

RECURSIVE Pow10(_)
Pow10(k) == IF k = 0 THEN 1 ELSE 10 * Pow10(k - 1)

\* <<floor(n * 10^k / d), n * 10^k - floor(..) * d>>, by long division
RECURSIVE ScaledFloor(_, _, _)
ScaledFloor(n, d, k) ==
    IF k = 0 THEN <<n \div d, n % d>>
    ELSE LET p == ScaledFloor(n, d, k - 1)
         IN  <<p[1] * 10 + ((p[2] * 10) \div d), (p[2] * 10) % d>>


\* x rounded to k decimal places, ties to even
RoundDec(x, k) ==
    LET p  == ScaledFloor(x[1], x[2], k)
        up == 2 * p[2] > x[2] \/ (2 * p[2] = x[2] /\ p[1] % 2 = 1)
    IN  Rat(IF up THEN p[1] + 1 ELSE p[1], Pow10(k))

(***************************************************************************)
(* Python and library primitives used by the script.                       *)
(***************************************************************************)
\* round(x, ndigits)
PyRound(x, ndigits) == RoundDec(x, ndigits)

\* f"{x:.<digits>f}"
FormatF(x, digits) == RoundDec(x, digits)

\* x / y on Python floats: raises ZeroDivisionError when y == 0
Raises(x, y) == RIsZero(y)

PyDiv(x, y) == RMul(x, RInv(y))

NumSamples == 200

Linspace_open(start, stop, num) ==
    [i \in 1..num |->
        RAdd(start, RMul(RInt(i - 1), RMul(RSub(stop, start), <<1, num>>)))]

\* np.linspace(start, stop, num): num points, both end points included
Linspace(start, stop, num) ==
    [i \in 1..num |->
        RAdd(start, RMul(RInt(i - 1), RMul(RSub(stop, start), <<1, num - 1>>)))]

(***************************************************************************)
(* The formulas of the page controllers.                                   *)
(***************************************************************************)
MetersToKilometers(value) == PyDiv(value, RInt(1000))

KilogramsToGrams(value) == RMul(value, RInt(1000))

CelsiusToFahrenheit_noOffset(temp) == PyDiv(RMul(temp, RInt(9)), RInt(5))

CelsiusToFahrenheit(temp) ==
    RAdd(PyDiv(RMul(temp, RInt(9)), RInt(5)), RInt(32))

FahrenheitToCelsius(temp) ==
    PyDiv(RMul(RSub(temp, RInt(32)), RInt(5)), RInt(9))

BmiGuard_nonzero(height) == ~RIsZero(height)

\* if height > 0:
BmiGuard(height) == RLt(RInt(0), height)

Bmi(weight, height) == PyDiv(weight, RSq(height))

ZBase(base_kv, base_mva) == PyDiv(RSq(base_kv), base_mva)

YBase(Z_base) == PyDiv(RInt(1), Z_base)

LineTotal(per_km, length) == RMul(per_km, length)

PerUnit_rounded(total, base) == PyDiv(PyRound(total, 6), base)

PerUnit_times(total, base) == RMul(total, base)

PerUnit(total, base) == PyDiv(total, base)

ZipRemainder_plus(x, y) == RAdd(RSub(RInt(1), x), y)

\* c = 1 - a - b and f = 1 - d - e
ZipRemainder(x, y) == RSub(RSub(RInt(1), x), y)

\* P0 * (a*(V/V0)**2 + b*(V/V0) + c), defined for V0 /= 0
ZipPower(S0, kz, ki, kp, V, V0) ==
    RMul(S0, RAdd(RAdd(RMul(kz, RSq(PyDiv(V, V0))), RMul(ki, PyDiv(V, V0))), kp))

ZipCurve(S0, kz, ki, kp, Vs, V0) ==
    [i \in DOMAIN Vs |-> ZipPower(S0, kz, ki, kp, Vs[i], V0)]

(***************************************************************************)
(* Pages and the values the user can give to each page's widgets.          *)
(***************************************************************************)
StandardConverter == "Standard Converter"
TemperatureConverter == "Temperature Converter"
BmiCalculator == "BMI Calculator"
PerUnitCalculator == "Advanced Per-Unit Calculator"
ZipLoadModel == "ZIP Load Model"

Pages == {StandardConverter, TemperatureConverter, BmiCalculator,
          PerUnitCalculator, ZipLoadModel}

\* a cap on the figures pyplot accumulates, to keep the state space finite
MaxFigs == 2

StandardWidgets ==
    [value : {<<1, 1>>, <<0, 1>>, <<-5, 2>>, <<1000, 1>>},
     unit  : {"Meters -> Kilometers", "Kilograms -> Grams"}]

TemperatureWidgets ==
    [temp : {<<0, 1>>, <<100, 1>>, <<-40, 1>>, <<37, 1>>, <<25, 2>>, <<1, 100>>},
     unit : {"Celsius -> Fahrenheit", "Fahrenheit -> Celsius"}]

BmiWidgets ==
    [weight : {<<70, 1>>, <<0, 1>>, <<-10, 1>>, <<171, 2>>},
     height : {<<7, 4>>, <<0, 1>>, <<-3, 2>>, <<2, 1>>, <<1, 2>>}]

\* Base MVA and Base kV have min_value 0.1, Line Length has min_value 0.0
PerUnitWidgets ==
    [base_mva : {<<1, 10>>, <<100, 1>>, <<3, 10>>},
     base_kv  : {<<69, 5>>, <<1, 1>>},
     length   : {<<0, 1>>, <<10, 1>>, <<1, 2>>},
     R_per    : {<<1, 10>>, <<-1, 5>>},
     X_per    : {<<3, 10>>, <<0, 1>>},
     B_per    : {<<1, 5000>>, <<0, 1>>}]
    \cup
    \* per-km values whose totals have more than six decimal places
    [base_mva : {<<100, 1>>},
     base_kv  : {<<1, 1>>},
     length   : {<<1, 2>>},
     R_per    : {<<1, 10000000>>, <<1, 10>>},
     X_per    : {<<3, 10>>, <<7, 2500000>>},
     B_per    : {<<1, 5000>>, <<3, 1000>>}]

\* P0, Q0, V0 are unconstrained number inputs; a, b, d, e are sliders on
\* [0, 1]; V is a slider on [0.5, 1.5]
ZipWidgets ==
    [P0 : {<<100, 1>>},
     Q0 : {<<50, 1>>},
     V0 : {<<1, 1>>, <<0, 1>>, <<2, 1>>, <<-1, 2>>},
     a  : {<<1, 2>>, <<1, 1>>},
     b  : {<<3, 10>>, <<1, 1>>},
     d  : {<<1, 2>>, <<0, 1>>},
     e  : {<<3, 10>>},
     V  : {<<1, 2>>, <<1, 1>>, <<3, 2>>}]

WidgetValues(p) ==
    CASE p = StandardConverter    -> StandardWidgets
      [] p = TemperatureConverter -> TemperatureWidgets
      [] p = BmiCalculator        -> BmiWidgets
      [] p = PerUnitCalculator    -> PerUnitWidgets
      [] p = ZipLoadModel         -> ZipWidgets

\* value of label in an ordered label -> value mapping
Lookup(mapping, label) ==
    LET i == CHOOSE j \in DOMAIN mapping : mapping[j][1] = label
    IN  mapping[i][2]

(***************************************************************************)
(* The session starts with the first radio option selected and every       *)
(* widget at its default; the first script run is about to happen.         *)
(***************************************************************************)
Init ==
    /\ page = StandardConverter
    /\ widgets = [value |-> <<1, 1>>, unit |-> "Meters -> Kilometers"]
    /\ pc = "run"
    /\ ran = <<>>
    /\ locals = <<>>
    /\ shown = <<>>
    /\ results = <<>>
    /\ downloads = {}
    /\ error = "none"
    /\ openFigs = 0
    /\ data_dict = <<>>
    /\ csv_bytes = <<>>

\* The user selects a page and sets its widgets; Streamlit re-runs the script.
Interact(p, w) ==
    /\ pc = "done"
    /\ p = ZipLoadModel => openFigs < MaxFigs
    /\ page' = p
    /\ widgets' = w
    /\ pc' = "run"
    /\ ran' = <<>>
    /\ locals' = <<>>
    /\ shown' = <<>>
    /\ results' = <<>>
    /\ downloads' = {}
    /\ error' = "none"
    /\ UNCHANGED <<openFigs, data_dict, csv_bytes>>

render_standard_converter ==
    LET value  == widgets.value
        result == IF widgets.unit = "Meters -> Kilometers"
                  THEN MetersToKilometers(value)
                  ELSE KilogramsToGrams(value)
    IN  /\ ran' = Append(ran, "render_standard_converter")
        /\ locals' = [result |-> result]
        /\ shown' = <<value, result>>
        /\ UNCHANGED <<results, downloads, error, openFigs>>

render_temperature_converter ==
    LET temp   == widgets.temp
        result == IF widgets.unit = "Celsius -> Fahrenheit"
                  THEN CelsiusToFahrenheit(temp)
                  ELSE FahrenheitToCelsius(temp)
    IN  /\ ran' = Append(ran, "render_temperature_converter")
        /\ locals' = [result |-> result]
        /\ shown' = <<temp, FormatF(result, 2)>>
        /\ UNCHANGED <<results, downloads, error, openFigs>>

render_bmi_calculator ==
    LET weight == widgets.weight
        height == widgets.height
    IN  /\ ran' = Append(ran, "render_bmi_calculator")
        /\ IF BmiGuard(height)
           THEN /\ locals' = [bmi |-> Bmi(weight, height)]
                /\ shown' = <<FormatF(Bmi(weight, height), 2)>>
           ELSE /\ locals' = <<>>
                /\ shown' = <<>>
        /\ UNCHANGED <<results, downloads, error, openFigs>>

\* an uncaught exception ends the script run: nothing after it executes
RaiseInController(exc) ==
    /\ error' = exc
    /\ locals' = <<>>
    /\ shown' = <<>>
    /\ results' = <<>>
    /\ downloads' = {}
    /\ UNCHANGED openFigs

render_enhanced_per_unit ==
    LET base_mva == widgets.base_mva
        base_kv  == widgets.base_kv
        length   == widgets.length
        Z_base   == ZBase(base_kv, base_mva)
        Y_base   == YBase(Z_base)
        R_total  == LineTotal(widgets.R_per, length)
        X_total  == LineTotal(widgets.X_per, length)
        B_total  == LineTotal(widgets.B_per, length)
        R_pu     == PerUnit(R_total, Z_base)
        X_pu     == PerUnit(X_total, Z_base)
        B_pu     == PerUnit(B_total, Y_base)
    IN  /\ ran' = Append(ran, "render_enhanced_per_unit")
        /\ IF Raises(RSq(base_kv), base_mva) \/ Raises(RInt(1), Z_base)
           THEN RaiseInController("ZeroDivisionError")
           ELSE /\ locals' = [Z_base |-> Z_base, Y_base |-> Y_base,
                              R_total |-> R_total, X_total |-> X_total,
                              B_total |-> B_total,
                              R_pu |-> R_pu, X_pu |-> X_pu, B_pu |-> B_pu]
                /\ shown' = <<FormatF(R_pu, 6), FormatF(X_pu, 6), FormatF(B_pu, 6)>>
                /\ results' = << <<"Base MVA", base_mva>>,
                                 <<"Base kV", base_kv>>,
                                 <<"Length (km)", length>>,
                                 <<"R_total (Ohm)", PyRound(R_total, 6)>>,
                                 <<"X_total (Ohm)", PyRound(X_total, 6)>>,
                                 <<"B_total (S)", PyRound(B_total, 6)>>,
                                 <<"R_pu", PyRound(R_pu, 6)>>,
                                 <<"X_pu", PyRound(X_pu, 6)>>,
                                 <<"B_pu", PyRound(B_pu, 6)>> >>
                /\ downloads' = {"pu_results.csv", "pu_results.pdf"}
                /\ error' = "none"
                /\ UNCHANGED openFigs

render_zip_load_model ==
    LET P0 == widgets.P0
        Q0 == widgets.Q0
        V0 == widgets.V0
        a  == widgets.a
        b  == widgets.b
        c  == ZipRemainder(a, b)
        d  == widgets.d
        e  == widgets.e
        f  == ZipRemainder(d, e)
        V  == widgets.V
        P  == ZipPower(P0, a, b, c, V, V0)
        Q  == ZipPower(Q0, d, e, f, V, V0)
        Vs == Linspace(<<1, 2>>, <<3, 2>>, NumSamples)
    IN  /\ ran' = Append(ran, "render_zip_load_model")
        /\ IF Raises(V, V0)
           THEN RaiseInController("ZeroDivisionError")
           ELSE /\ locals' = [c |-> c, f |-> f, P |-> P, Q |-> Q, Vs |-> Vs,
                              Pcurve |-> ZipCurve(P0, a, b, c, Vs, V0),
                              Qcurve |-> ZipCurve(Q0, d, e, f, Vs, V0)]
                /\ shown' = <<FormatF(V, 2), FormatF(P, 2), FormatF(Q, 2)>>
                /\ openFigs' = openFigs + 1
                /\ results' = << <<"P0 (MW)", P0>>,
                                 <<"Q0 (MVAr)", Q0>>,
                                 <<"Operating V (p.u.)", V>>,
                                 <<"P (MW)", PyRound(P, 4)>>,
                                 <<"Q (MVAr)", PyRound(Q, 4)>>,
                                 <<"Coeffs a,b,c",
                                   <<FormatF(a, 2), FormatF(b, 2), FormatF(c, 2)>> >>,
                                 <<"Coeffs d,e,f",
                                   <<FormatF(d, 2), FormatF(e, 2), FormatF(f, 2)>> >> >>
                /\ downloads' = {"zip_results.csv", "zip_results.pdf",
                                 "zip_curve.png", "zip_curve.pdf"}
                /\ error' = "none"

\* One script run: the if/elif chain on the sidebar radio.
Dispatch ==
    /\ pc = "run"
    /\ pc' = "done"
    /\ UNCHANGED <<page, widgets, data_dict, csv_bytes>>
    /\ \/ page = StandardConverter /\ render_standard_converter
       \/ page = TemperatureConverter /\ render_temperature_converter
       \/ page = BmiCalculator /\ render_bmi_calculator
       \/ page = PerUnitCalculator /\ render_enhanced_per_unit
       \/ page = ZipLoadModel /\ render_zip_load_model

Next ==
    \/ \E p \in Pages : \E w \in WidgetValues(p) : Interact(p, w)
    \/ Dispatch

Spec == Init /\ [][Next]_vars

(***************************************************************************)
(* Properties of the page controllers.                                     *)
(***************************************************************************)
Finished(p) == pc = "done" /\ page = p

\* C1: BMI, as claimed: every height <= 0 ends in a division-by-zero error
\* surfaced to the caller, every height > 0 yields weight / height^2, and no
\* input ends with neither a result nor an error.
C1_BmiErrorOrResult ==
    Finished(BmiCalculator) =>
        IF RLe(widgets.height, RInt(0))
        THEN error = "ZeroDivisionError"
        ELSE /\ DOMAIN locals = {"bmi"}
             /\ RMul(locals.bmi, RSq(widgets.height)) = widgets.weight

\* C1 (amended): for every height <= 0 the BMI page computes nothing, shows
\* nothing and raises no error; for every height > 0 it yields exactly
\* weight / height^2 and shows it.
C1_BmiGuarded ==
    Finished(BmiCalculator) =>
        /\ error = "none"
        /\ IF RLe(widgets.height, RInt(0))
           THEN DOMAIN locals = {} /\ shown = <<>>
           ELSE /\ DOMAIN locals = {"bmi"}
                /\ RMul(locals.bmi, RSq(widgets.height)) = widgets.weight
                /\ Len(shown) = 1

C1_Witness ==
    /\ Finished(BmiCalculator)
    /\ widgets.height[1] < 0
    /\ widgets.weight = <<70, 1>>
    /\ shown = <<>>
    /\ error = "none"

\* C2: per-unit: Z_base = base_kv^2 / base_mva, Y_base = 1 / Z_base, the totals
\* are the per-km values times the length, R_pu = R_total / Z_base,
\* X_pu = X_total / Z_base and B_pu = B_total / Y_base = B_total * Z_base.
C2_PerUnitFormulas ==
    Finished(PerUnitCalculator) =>
        /\ error = "none"
        /\ RMul(locals.Z_base, widgets.base_mva) = RSq(widgets.base_kv)
        /\ RMul(locals.Y_base, locals.Z_base) = RInt(1)
        /\ locals.R_total = RMul(widgets.R_per, widgets.length)
        /\ locals.X_total = RMul(widgets.X_per, widgets.length)
        /\ locals.B_total = RMul(widgets.B_per, widgets.length)
        /\ RMul(locals.R_pu, locals.Z_base) = locals.R_total
        /\ RMul(locals.X_pu, locals.Z_base) = locals.X_total
        /\ locals.B_pu = RMul(locals.B_total, locals.Z_base)
        /\ RMul(locals.B_pu, widgets.base_mva)
               = RMul(locals.B_total, RSq(widgets.base_kv))

C2_Witness ==
    /\ Finished(PerUnitCalculator)
    /\ widgets = [base_mva |-> <<100, 1>>, base_kv |-> <<69, 5>>,
                  length |-> <<10, 1>>, R_per |-> <<1, 10>>,
                  X_per |-> <<3, 10>>, B_per |-> <<1, 5000>>]
    /\ locals.Z_base = <<4761, 2500>>
    /\ locals.R_total = <<1, 1>>
    /\ locals.B_pu = <<4761, 1250000>>

\* a*V^2 + b*V*V0 + c*V0^2, the ZIP polynomial multiplied through by V0^2
ZipNumerator(kz, ki, kp, V, V0) ==
    RAdd(RAdd(RMul(kz, RSq(V)), RMul(ki, RMul(V, V0))), RMul(kp, RSq(V0)))

C5_Curve ==
    (Finished(ZipLoadModel) /\ error = "none") =>
        /\ Len(locals.Vs) = 200
        /\ Len(locals.Pcurve) = 200
        /\ Len(locals.Qcurve) = 200
        /\ locals.Vs[1] = <<1, 2>>
        /\ locals.Vs[200] = <<3, 2>>
        /\ \A i \in 1..199 :
              /\ RLt(locals.Vs[i], locals.Vs[i + 1])
              /\ RSub(locals.Vs[i + 1], locals.Vs[i])
                     = RSub(locals.Vs[2], locals.Vs[1])
        /\ \A i \in 1..200 :
              /\ RMul(locals.Pcurve[i], RSq(widgets.V0))
                     = RMul(widgets.P0,
                            ZipNumerator(widgets.a, widgets.b, locals.c,
                                         locals.Vs[i], widgets.V0))
              /\ RMul(locals.Qcurve[i], RSq(widgets.V0))
                     = RMul(widgets.Q0,
                            ZipNumerator(widgets.d, widgets.e, locals.f,
                                         locals.Vs[i], widgets.V0))

C5_Witness ==
    /\ Finished(ZipLoadModel)
    /\ error = "none"
    /\ widgets.V0 = <<2, 1>>
    /\ Len(locals.Pcurve) = 200
    /\ locals.Vs[200] = <<3, 2>>
    /\ locals.Pcurve[1] # locals.Pcurve[200]

\* C7: converting t Celsius -> Fahrenheit (t*9/5 + 32) and the result
\* Fahrenheit -> Celsius ((x - 32)*5/9) returns t.
C7_TemperatureRoundTrip ==
    (Finished(TemperatureConverter) /\ widgets.unit = "Celsius -> Fahrenheit") =>
        /\ RMul(locals.result, RInt(5)) = RAdd(RMul(widgets.temp, RInt(9)), RInt(160))
        /\ FahrenheitToCelsius(locals.result) = widgets.temp

C7_Witness ==
    /\ Finished(TemperatureConverter)
    /\ widgets.unit = "Celsius -> Fahrenheit"
    /\ widgets.temp = <<100, 1>>
    /\ locals.result = <<212, 1>>

\* x is a multiple of 10^-6 within half of 10^-6 of exact
RoundedTo6(x, exact) ==
    LET m == x[1] * (1000000 \div x[2])
        q == ScaledFloor(exact[1], exact[2], 6)
    IN  /\ 1000000 % x[2] = 0
        /\ \/ m = q[1] /\ 2 * q[2] <= exact[2]
           \/ m = q[1] + 1 /\ 2 * q[2] >= exact[2]

\* C8: R_total, X_total, B_total, R_pu, X_pu, B_pu in the per-unit result
\* record are rounded to 6 decimal places, and only there: the per-unit values
\* come from the unrounded totals and the unrounded Z_base.
C8_RoundedAtFinalStep ==
    (Finished(PerUnitCalculator) /\ error = "none") =>
        LET Z  == RMul(RSq(widgets.base_kv), RInv(widgets.base_mva))
            Rt == RMul(widgets.R_per, widgets.length)
            Xt == RMul(widgets.X_per, widgets.length)
            Bt == RMul(widgets.B_per, widgets.length)
        IN  /\ RoundedTo6(Lookup(results, "R_total (Ohm)"), Rt)
            /\ RoundedTo6(Lookup(results, "X_total (Ohm)"), Xt)
            /\ RoundedTo6(Lookup(results, "B_total (S)"), Bt)
            /\ RoundedTo6(Lookup(results, "R_pu"), RMul(Rt, RInv(Z)))
            /\ RoundedTo6(Lookup(results, "X_pu"), RMul(Xt, RInv(Z)))
            /\ RoundedTo6(Lookup(results, "B_pu"), RMul(Bt, Z))

C8_Witness ==
    /\ Finished(PerUnitCalculator)
    /\ widgets.R_per = <<1, 10000000>>
    /\ locals.R_total = <<1, 20000000>>
    /\ Lookup(results, "R_total (Ohm)") = <<0, 1>>
    /\ Lookup(results, "R_pu") = <<1, 200000>>

Controller(p) ==
    CASE p = StandardConverter    -> "render_standard_converter"
      [] p = TemperatureConverter -> "render_temperature_converter"
      [] p = BmiCalculator        -> "render_bmi_calculator"
      [] p = PerUnitCalculator    -> "render_enhanced_per_unit"
      [] p = ZipLoadModel         -> "render_zip_load_model"

\* C9: each script run invokes exactly the selected page's controller, and
\* nothing a run created (the plot's figure included) is still held once the
\* run has finished.
C9_Stateless ==
    pc = "done" => ran = <<Controller(page)>> /\ openFigs = 0

\* C10: the ZIP page completes for every base voltage V0 its input accepts:
\* no division by zero, and the result and export steps are reached.
C10_ZipCompletes ==
    Finished(ZipLoadModel) =>
        /\ error = "none"
        /\ Len(results) = 7
        /\ "zip_results.csv" \in downloads

(***************************************************************************)
(* export_csv.  Text is a sequence of Unicode code points, the exported     *)
(* file a sequence of bytes.  A mapping is a sequence of <<label, value>>   *)
(* pairs with distinct labels, in insertion order; a value is               *)
(* <<"int", n>> or <<"str", text>>.                                         *)
(***************************************************************************)
COMMA == 44
QUOTE == 34
LF == 10
CR == 13
MINUS == 45
ZERO == 48

RECURSIVE Digits(_)
Digits(n) ==
    IF n < 10 THEN <<ZERO + n>> ELSE Append(Digits(n \div 10), ZERO + (n % 10))

\* str(n) for an int
PyStr(n) == IF n < 0 THEN <<MINUS>> \o Digits(-n) ELSE Digits(n)

\* the text pandas writes for a cell
CellText(value) == IF value[1] = "int" THEN PyStr(value[2]) ELSE value[2]

RECURSIVE DoubleQuotes(_)
DoubleQuotes(text) ==
    IF text = <<>> THEN <<>>
    ELSE (IF Head(text) = QUOTE THEN <<QUOTE, QUOTE>> ELSE <<Head(text)>>)
         \o DoubleQuotes(Tail(text))

NeedsQuoting_noComma(text) ==
    \E i \in DOMAIN text : text[i] \in {QUOTE, LF, CR}

\* csv.QUOTE_MINIMAL: a field holding the delimiter, the quote character or a
\* line break is quoted
NeedsQuoting(text) ==
    \E i \in DOMAIN text : text[i] \in {COMMA, QUOTE, LF, CR}

CsvField(text) ==
    IF NeedsQuoting(text)
    THEN <<QUOTE>> \o DoubleQuotes(text) \o <<QUOTE>>
    ELSE text

RECURSIVE JoinFields(_)
JoinFields(fields) ==
    IF Len(fields) = 1 THEN CsvField(fields[1])
    ELSE CsvField(Head(fields)) \o <<COMMA>> \o JoinFields(Tail(fields))

\* csv.writer.writerow: a row that would be written empty (one empty field)
\* is written as ""
CsvRow(fields) ==
    LET line == JoinFields(fields)
    IN  (IF line = <<>> THEN <<QUOTE, QUOTE>> ELSE line) \o <<LF>>

\* pd.DataFrame([data_dict]).to_csv(index=False): header row, one data row
ToCsv(mapping) ==
    CsvRow([i \in DOMAIN mapping |-> mapping[i][1]])
        \o CsvRow([i \in DOMAIN mapping |-> CellText(mapping[i][2])])

Utf8Char(cp) ==
    IF cp < 128 THEN <<cp>>
    ELSE IF cp < 2048 THEN <<192 + (cp \div 64), 128 + (cp % 64)>>
    ELSE <<224 + (cp \div 4096), 128 + ((cp \div 64) % 64), 128 + (cp % 64)>>

RECURSIVE Utf8Encode(_)
Utf8Encode(text) ==
    IF text = <<>> THEN <<>> ELSE Utf8Char(Head(text)) \o Utf8Encode(Tail(text))

export_csv(mapping) == Utf8Encode(ToCsv(mapping))

MaxFields == 2

CsvLabels == {<<65>>, <<66>>, <<97, 44, 98>>, <<82, 32, 40, 937, 41>>}

CsvValues ==
    {<<"int", n>> : n \in {0, 1, -12, 305}}
    \cup {<<"str", t>> : t \in {<<>>, <<120>>, <<COMMA>>, <<QUOTE>>, <<LF>>,
                                <<120, COMMA, 121>>, <<97, QUOTE, 98>>,
                                <<QUOTE, QUOTE>>, <<32, 120>>, <<CR, LF>>,
                                <<48, 46, 53, 48, COMMA, 32, 48, 46, 51, 48>>,
                                <<233>>, <<8594>>}}

Mappings ==
    {m \in UNION {[1..n -> CsvLabels \X CsvValues] : n \in 1..MaxFields} :
        \A i, j \in DOMAIN m : m[i][1] = m[j][1] => i = j}

\* A caller is about to pass some ordered mapping to export_csv.
InitCsv ==
    /\ data_dict \in Mappings
    /\ csv_bytes = <<>>
    /\ pc = "call"
    /\ page = StandardConverter
    /\ widgets = [value |-> <<1, 1>>, unit |-> "Meters -> Kilometers"]
    /\ ran = <<>>
    /\ locals = <<>>
    /\ shown = <<>>
    /\ results = <<>>
    /\ downloads = {}
    /\ error = "none"
    /\ openFigs = 0

ExportCsvCall ==
    /\ pc = "call"
    /\ csv_bytes' = export_csv(data_dict)
    /\ pc' = "returned"
    /\ UNCHANGED <<page, widgets, ran, locals, shown, results, downloads,
                   error, openFigs, data_dict>>

NextCsv == ExportCsvCall

SpecCsv == InitCsv /\ [][NextCsv]_vars

(***************************************************************************)
(* Reading the exported file back: UTF-8 decoding and a CSV reader.        *)
(***************************************************************************)
RECURSIVE Utf8Decode(_)
Utf8Decode(bytes) ==
    IF bytes = <<>> THEN <<>>
    ELSE IF bytes[1] < 128
         THEN <<bytes[1]>> \o Utf8Decode(Tail(bytes))
    ELSE IF bytes[1] < 224
         THEN <<(bytes[1] - 192) * 64 + (bytes[2] - 128)>>
              \o Utf8Decode(SubSeq(bytes, 3, Len(bytes)))
    ELSE <<(bytes[1] - 224) * 4096 + (bytes[2] - 128) * 64 + (bytes[3] - 128)>>
         \o Utf8Decode(SubSeq(bytes, 4, Len(bytes)))

\* st: "start" (before a record), "field" (before a field), "plain" (in an
\* unquoted field), "quoted" (in a quoted field), "qq" (after a quote inside a
\* quoted field)
RECURSIVE ReadCsv(_, _, _, _, _, _)
ReadCsv(text, i, st, field, row, rows) ==
    IF i > Len(text)
    THEN IF st = "start" THEN rows ELSE Append(rows, Append(row, field))
    ELSE LET ch == text[i] IN
         IF st = "quoted"
         THEN IF ch = QUOTE
              THEN ReadCsv(text, i + 1, "qq", field, row, rows)
              ELSE ReadCsv(text, i + 1, "quoted", Append(field, ch), row, rows)
         ELSE IF ch = QUOTE /\ st = "qq"
              THEN ReadCsv(text, i + 1, "quoted", Append(field, QUOTE), row, rows)
         ELSE IF ch = QUOTE /\ st \in {"start", "field"}
              THEN ReadCsv(text, i + 1, "quoted", field, row, rows)
         ELSE IF ch = COMMA
              THEN ReadCsv(text, i + 1, "field", <<>>, Append(row, field), rows)
         ELSE IF ch = LF
              THEN ReadCsv(text, i + 1, "start", <<>>, <<>>,
                           Append(rows, IF st = "start" THEN <<>>
                                        ELSE Append(row, field)))
         ELSE ReadCsv(text, i + 1, "plain", Append(field, ch), row, rows)

ParseCsv(bytes) == ReadCsv(Utf8Decode(bytes), 1, "start", <<>>, <<>>, <<>>)

RECURSIVE ParseNat(_, _)
ParseNat(text, acc) ==
    IF text = <<>> THEN acc
    ELSE ParseNat(Tail(text), 10 * acc + (Head(text) - ZERO))

IsDecimal(text) ==
    LET body == IF text # <<>> /\ Head(text) = MINUS THEN Tail(text) ELSE text
    IN  body # <<>> /\ \A i \in DOMAIN body : body[i] \in ZERO..(ZERO + 9)

\* int(text) for a decimal text
ParseInt(text) ==
    IF Head(text) = MINUS THEN -ParseNat(Tail(text), 0) ELSE ParseNat(text, 0)

\* C6: export_csv emits exactly two rows, the labels and the values' text, in
\* insertion order; parsing the bytes returns the same labels and the values
\* as strings in the same order.
C6_CsvRoundTrip ==
    pc = "returned" =>
        LET rows == ParseCsv(csv_bytes)
        IN  /\ Len(rows) = 2
            /\ rows[1] = [i \in DOMAIN data_dict |-> data_dict[i][1]]
            /\ Len(rows[2]) = Len(data_dict)
            /\ \A i \in DOMAIN data_dict :
                  IF data_dict[i][2][1] = "int"
                  THEN /\ IsDecimal(rows[2][i])
                       /\ ParseInt(rows[2][i]) = data_dict[i][2][2]
                  ELSE rows[2][i] = data_dict[i][2][2]

\* {"A": 1, "B": "x"} is exported as A,B / 1,x
C6_Witness ==
    /\ pc = "returned"
    /\ data_dict = << <<(<<65>>), <<"int", 1>> >>, <<(<<66>>), <<"str", <<120>> >> >> >>
    /\ csv_bytes = <<65, 44, 66, 10, 49, 44, 120, 10>>

====
